---- MODULE Spec2Model ----
(***************************************************************************)
(* Model of pkg/olm/packagemanifest.go: the PackageManifestBuilder with    *)
(* its Definition/Object pointers, the three constructors                  *)
(* (ListPackageManifest, PullPackageManifest,                              *)
(* PullPackageManifestByCatalog) and the methods Exists and Delete, run    *)
(* against a cluster API server whose Get/List/Delete calls may fail.      *)
(*                                                                         *)
(* Pointers are modelled as addresses into `heap`; Nil is the nil pointer. *)
(* The caller holds the accessors returned by the latest constructor call  *)
(* in `builders`.  `last` records what the latest operation did: the       *)
(* remote calls it issued, their outcomes and the values it returned.      *)
(***************************************************************************)
EXTENDS Naturals, Sequences, FiniteSets

\* ---------------------------------------------------------------- bounds
\* Largest number of PackageManifests the server holds initially.
MaxItems == 2

\* ---------------------------------------------------------------- values
Names == {"etcd", "prom"}
Namespaces == {"olm"}
Catalogs == {"community", "certified"}

\* A PackageManifest: ObjectMeta.Name, ObjectMeta.Namespace and the labels
\* "catalog" and "catalog-namespace".  The server draws its inventory from
\* these: "etcd" is published by two catalogs named "community" (in two
\* catalog namespaces), "prom" by the catalog "certified".
PackageManifest ==
  {[name |-> "etcd", ns |-> "olm", catalog |-> "community", catalogNs |-> "olm"],
   [name |-> "etcd", ns |-> "olm", catalog |-> "community", catalogNs |-> "marketplace"],
   [name |-> "prom", ns |-> "olm", catalog |-> "certified", catalogNs |-> "olm"]}

\* The zero value pkgManifestV1.PackageManifest{}.
Empty == [name |-> "", ns |-> "", catalog |-> "", catalogNs |-> ""]

\* What dereferencing a nil *PackageManifest stands for in value comparisons.
NilVal == [name |-> "<nil>", ns |-> "<nil>", catalog |-> "<nil>", catalogNs |-> "<nil>"]

Nil == 0

\* ---------------------------------------------------------------- errors
NoErr == [kind |-> "nil", name |-> "", ns |-> ""]
NotFoundErr == [kind |-> "NotFound", name |-> "", ns |-> ""]
InternalErr == [kind |-> "InternalError", name |-> "", ns |-> ""]
EmptyNsnameErr == [kind |-> "failed to list packagemanifests, 'nsname' parameter is empty", name |-> "", ns |-> ""]
NoMatchErr == [kind |-> "no matching PackageManifests were found", name |-> "", ns |-> ""]
MoreThanOneErr == [kind |-> "more than one matching PackageManifests were found", name |-> "", ns |-> ""]
PanicErr == [kind |-> "panic: nil pointer dereference", name |-> "", ns |-> ""]

DoesNotExistErr(name, nsname) == [kind |-> "PackageManifest object %s doesn't exist in namespace %s", name |-> name, ns |-> nsname]

IsNotFound(err) == err.kind = "NotFound"

\* ---------------------------------------------------------------- state
VARIABLES server, clientset, heap, builders, items, last

vars == <<server, clientset, heap, builders, items, last>>

\* ---------------------------------------------------------------- heap
EmptyHeap == [a \in {} |-> Empty]

Fresh(used) == CHOOSE a \in 1..(Cardinality(used) + 1) : a \notin used /\ \A b \in 1..(a - 1) : b \in used

Extend(h, p, v) == [a \in (DOMAIN h) \cup {p} |-> IF a = p THEN v ELSE h[a]]

Range(s) == {s[i] : i \in DOMAIN s}

\* The pointers the caller can still reach, in a fixed order: the list
\* buffer's slots, then each builder's Definition and Object.
Ptrs(bs, its) == its \o [k \in 1..(2 * Len(bs)) |-> IF k % 2 = 1 THEN bs[(k + 1) \div 2].Definition ELSE bs[k \div 2].Object]

Live(bs, its) == Range(Ptrs(bs, its)) \ {Nil}

\* Addresses carry no meaning beyond equality: the live objects are renamed
\* 1..k in the order Ptrs first reaches them, the unreachable ones dropped.
Rank(s, a) ==
  IF a = Nil THEN Nil
  ELSE LET f == CHOOSE k \in DOMAIN s : s[k] = a /\ \A j \in 1..(k - 1) : s[j] # a
       IN Cardinality({s[j] : j \in 1..f} \ {Nil})

CollectHeap(h, bs, its) ==
  LET s == Ptrs(bs, its) IN
  [k \in 1..Cardinality(Live(bs, its)) |-> h[CHOOSE a \in Live(bs, its) : Rank(s, a) = k]]

CollectBuilders(bs, its) ==
  LET s == Ptrs(bs, its) IN
  [i \in DOMAIN bs |-> [bs[i] EXCEPT !.Definition = Rank(s, bs[i].Definition), !.Object = Rank(s, bs[i].Object)]]

ValOf(h, p) == IF p = Nil THEN NilVal ELSE h[p]

\* ---------------------------------------------------------------- server
Matching(nsname, name) == {it \in server : it.ns = nsname /\ it.name = name}

\* Result of PackageManifests(ns).Get: the error and the pointee of the
\* returned pointer (NilVal for a nil pointer).  What a failed Get returns
\* beside the error is the clientset's choice: the generated REST clientset
\* returns a pointer to an empty PackageManifest, the fake clientset nil.
Clientsets == {"rest", "fake"}

FailedGetResult == IF clientset = "rest" THEN Empty ELSE NilVal

Get(nsname, name) ==
  {[err |-> NoErr, res |-> it] : it \in Matching(nsname, name)}
  \cup {[err |-> e, res |-> FailedGetResult] : e \in (IF Matching(nsname, name) = {} THEN {NotFoundErr, InternalErr} ELSE {InternalErr})}

\* Result of PackageManifests(ns).Delete: the error and the server afterwards.
RemoteDelete(nsname, name) ==
  (IF Matching(nsname, name) = {} THEN {[err |-> NotFoundErr, server |-> server]} ELSE {[err |-> NoErr, server |-> server \ Matching(nsname, name)]})
  \cup {[err |-> InternalErr, server |-> server]}

NoSelector == <<>>

Sprintf(key, value) == <<key, value>>

Selected(it, options) ==
  /\ options.LabelSelector = NoSelector \/ (options.LabelSelector[1] = "catalog" /\ it.catalog = options.LabelSelector[2])
  /\ options.FieldSelector = NoSelector \/ (options.FieldSelector[1] = "metadata.name" /\ it.name = options.FieldSelector[2])

RECURSIVE SetToSeq(_)
SetToSeq(S) == IF S = {} THEN <<>> ELSE LET x == CHOOSE y \in S : TRUE IN <<x>> \o SetToSeq(S \ {x})

\* Result of PackageManifests(ns).List: the error and pkgManifestList.Items.
RemoteList(nsname, options) ==
  {[err |-> NoErr, Items |-> SetToSeq({it \in server : it.ns = nsname /\ Selected(it, options)})], [err |-> InternalErr, Items |-> <<>>]}

\* ---------------------------------------------------------------- records
NoCall == [kind |-> "none", name |-> "", ns |-> ""]

Blank ==
  [op |-> "Init", idx |-> 0, name |-> "", nsname |-> "", calls |-> <<>>,
   get |-> NoCall, del |-> NoCall, lst |-> NoCall, found |-> 0,
   result |-> "none", err |-> NoErr, objMid |-> NilVal, present |-> FALSE,
   before |-> "other"]

\* What a Delete on builder i follows: a Delete on the same builder whose
\* remote delete succeeded, another Delete on it, or anything else.
Before(i) ==
  IF last.op = "Delete" /\ last.idx = i
  THEN (IF last.del = NoErr THEN "deleted" ELSE "delete")
  ELSE "other"

Init ==
  /\ server \in {s \in SUBSET PackageManifest : Cardinality(s) <= MaxItems}
  /\ clientset \in Clientsets
  /\ heap = EmptyHeap
  /\ builders = <<>>
  /\ items = <<>>
  /\ last = Blank

\* ---------------------------------------------------------------- Exists
\* The remote calls one Exists issues.
ExistsCallsRetry == <<"get", "get">>

ExistsCalls == <<"get">>

\* return err == nil || !k8serrors.IsNotFound(err)
ExistsResultStrict(err) == err = NoErr

ExistsResult(err) == err = NoErr \/ ~IsNotFound(err)

\* builder.Object, err = ...Get(...): the pointer Object holds afterwards,
\* given the pointer it held and the pointer Get returned.
ExistsObjectKeep(old, got, err) == IF err = NoErr THEN got ELSE old

ExistsObject(old, got, err) == got

\* Exists on builder b over heap h when the Get returns g.
ExistsOn(b, h, g) ==
  LET got == IF g.res = NilVal THEN Nil ELSE Fresh(DOMAIN h)
      h2 == IF got = Nil THEN h ELSE Extend(h, got, g.res)
  IN [builder |-> [b EXCEPT !.Object = ExistsObject(b.Object, got, g.err)],
      heap |-> h2,
      ret |-> ExistsResult(g.err)]

BoolStr(b) == IF b THEN "true" ELSE "false"

Exists(i) ==
  /\ i \in DOMAIN builders
  /\ LET b == builders[i] IN
     IF b.Definition = Nil
     THEN /\ last' = [Blank EXCEPT !.op = "Exists", !.idx = i, !.result = "panic", !.err = PanicErr]
          /\ UNCHANGED <<server, clientset, heap, builders, items>>
     ELSE LET def == heap[b.Definition] IN
          \E g \in Get(def.ns, def.name) :
            LET e == ExistsOn(b, heap, g)
                bs == [builders EXCEPT ![i] = e.builder]
            IN /\ builders' = CollectBuilders(bs, items)
               /\ heap' = CollectHeap(e.heap, bs, items)
               /\ last' = [Blank EXCEPT !.op = "Exists", !.idx = i,
                                        !.calls = ExistsCalls, !.get = g.err, !.result = BoolStr(e.ret)]
               /\ UNCHANGED <<server, clientset, items>>

\* ---------------------------------------------------------------- Delete
\* if !builder.Exists() { return nil }
DeleteProceedsAlways(exists) == TRUE

DeleteProceeds(exists) == exists

\* if err != nil { return err }; builder.Object = nil
DeleteObjectAfterClear(obj, err) == Nil

DeleteObjectAfter(obj, err) == IF err = NoErr THEN Nil ELSE obj

NoDelete == {[err |-> NoCall, server |-> server]}

Delete(i) ==
  /\ i \in DOMAIN builders
  /\ LET b == builders[i] IN
     IF b.Definition = Nil
     THEN /\ last' = [Blank EXCEPT !.op = "Delete", !.idx = i, !.result = "panic", !.err = PanicErr,
                                   !.before = Before(i)]
          /\ UNCHANGED <<server, clientset, heap, builders, items>>
     ELSE LET def == heap[b.Definition] IN
          \E g \in Get(def.ns, def.name) :
            LET e == ExistsOn(b, heap, g)
                proceeds == DeleteProceeds(e.ret)
                obj == e.builder.Object
                panics == proceeds /\ obj = Nil
            IN \E d \in (IF proceeds /\ ~panics THEN RemoteDelete(def.ns, e.heap[obj].name) ELSE NoDelete) :
                 LET after == IF proceeds /\ ~panics THEN DeleteObjectAfter(obj, d.err) ELSE obj
                     bs == [builders EXCEPT ![i] = [e.builder EXCEPT !.Object = after]]
                 IN /\ builders' = CollectBuilders(bs, items)
                    /\ heap' = CollectHeap(e.heap, bs, items)
                    /\ server' = d.server
                    /\ last' = [Blank EXCEPT !.op = "Delete", !.idx = i, !.name = def.name, !.nsname = def.ns,
                                             !.calls = ExistsCalls \o (IF proceeds /\ ~panics THEN <<"delete">> ELSE <<>>),
                                             !.get = g.err, !.del = d.err,
                                             !.result = IF panics THEN "panic" ELSE "returned",
                                             !.err = IF panics THEN PanicErr ELSE IF proceeds THEN d.err ELSE NoErr,
                                             !.objMid = IF proceeds /\ ~panics THEN ValOf(e.heap, obj) ELSE NilVal,
                                             !.present = Matching(def.ns, def.name) # {},
                                             !.before = Before(i)]
                    /\ UNCHANGED <<clientset, items>>

\* ---------------------------------------------------------------- List
\* if nsname == "" { return nil, fmt.Errorf(...) }
ListRejectsNever(nsname) == FALSE

ListRejects(nsname) == nsname = ""

\* copiedPkgManifest := runningPkgManifest; &copiedPkgManifest
\* The address of the i-th copy when the list buffer has n slots (the slots
\* of pkgManifestList.Items live at addresses 1..n).
CopyAddrLoopVar(n, i) == n + 1

CopyAddr(n, i) == n + i

NewBuilder(def, obj, msg) == [Definition |-> def, Object |-> obj, errorMsg |-> msg]

Max(S) == CHOOSE x \in S : \A y \in S : y <= x

\* ListPackageManifest(apiClient, nsname, options) when the remote List
\* returns l: the returned slice, the list buffer, the heap and the error.
ListPackageManifest(nsname, options, l) ==
  IF ListRejects(nsname)
  THEN [objs |-> <<>>, items |-> <<>>, heap |-> EmptyHeap, err |-> EmptyNsnameErr, calls |-> <<>>, lst |-> NoCall]
  ELSE IF l.err # NoErr
  THEN [objs |-> <<>>, items |-> <<>>, heap |-> EmptyHeap, err |-> l.err, calls |-> <<"list">>, lst |-> l.err]
  ELSE LET n == Len(l.Items)
           copies == {CopyAddr(n, i) : i \in 1..n}
           writers(a) == {i \in 1..n : CopyAddr(n, i) = a}
       IN [objs |-> [i \in 1..n |-> NewBuilder(CopyAddr(n, i), CopyAddr(n, i), "")],
           items |-> [i \in 1..n |-> i],
           heap |-> [a \in (1..n) \cup copies |-> IF a \in copies THEN l.Items[Max(writers(a))] ELSE l.Items[a]],
           err |-> NoErr, calls |-> <<"list">>, lst |-> NoErr]

NameInputs == Names \cup {""}
NamespaceInputs == Namespaces \cup {""}

NoOptions == [LabelSelector |-> NoSelector, FieldSelector |-> NoSelector]

OptionInputs ==
  {NoOptions,
   [LabelSelector |-> Sprintf("catalog", "community"), FieldSelector |-> NoSelector],
   [LabelSelector |-> NoSelector, FieldSelector |-> Sprintf("metadata.name", "prom")]}

\* The arguments the caller passes; with an empty namespace one choice of
\* the other arguments stands for all of them.
ListInputs == {<<"", NoOptions>>} \cup (Namespaces \X OptionInputs)
PullInputs == NameInputs \X NamespaceInputs
ByCatalogInputs == {<<"etcd", "", "community">>} \cup (NameInputs \X Namespaces \X Catalogs)

List(nsname, options) ==
  \E l \in RemoteList(nsname, options) :
    LET r == ListPackageManifest(nsname, options, l) IN
    /\ builders' = CollectBuilders(r.objs, r.items)
    /\ items' = r.items
    /\ heap' = CollectHeap(r.heap, r.objs, r.items)
    /\ last' = [Blank EXCEPT !.op = "List", !.nsname = nsname, !.calls = r.calls, !.lst = r.lst,
                             !.found = Len(r.items), !.err = r.err,
                             !.result = IF Len(r.objs) = 0 THEN "nil" ELSE "returned"]
    /\ UNCHANGED <<server, clientset>>

\* ---------------------------------------------------------------- Pull
ErrorMsg(name, nsname) ==
  IF nsname = "" THEN "PackageManifest 'nsname' cannot be empty"
  ELSE IF name = "" THEN "PackageManifest 'name' cannot be empty"
  ELSE ""

PullPackageManifest(name, nsname) ==
  \E g \in Get(nsname, name) :
    LET def == Fresh({})
        h0 == Extend(EmptyHeap, def, [name |-> name, ns |-> nsname, catalog |-> "", catalogNs |-> ""])
        b0 == NewBuilder(def, Nil, ErrorMsg(name, nsname))
        e == ExistsOn(b0, h0, g)
        b == [e.builder EXCEPT !.Definition = e.builder.Object]
        bs == IF e.ret THEN <<b>> ELSE <<>>
    IN /\ builders' = CollectBuilders(bs, <<>>)
       /\ items' = <<>>
       /\ heap' = CollectHeap(e.heap, bs, <<>>)
       /\ last' = [Blank EXCEPT !.op = "Pull", !.idx = Len(bs), !.name = name, !.nsname = nsname,
                                !.calls = ExistsCalls, !.get = g.err,
                                !.err = IF e.ret THEN NoErr ELSE DoesNotExistErr(name, nsname),
                                !.result = IF e.ret THEN "returned" ELSE "nil"]
       /\ UNCHANGED <<server, clientset>>

\* ---------------------------------------------------------------- PullByCatalog
\* The error PullPackageManifestByCatalog returns for a successful list of n items.
ByCatalogErrFirst(n) == IF n = 0 THEN NoMatchErr ELSE NoErr

ByCatalogErr(n) == IF n = 0 THEN NoMatchErr ELSE IF n > 1 THEN MoreThanOneErr ELSE NoErr

PullPackageManifestByCatalog(name, nsname, catalog) ==
  LET options == [LabelSelector |-> Sprintf("catalog", catalog), FieldSelector |-> Sprintf("metadata.name", name)] IN
  \E l \in RemoteList(nsname, options) :
    LET r == ListPackageManifest(nsname, options, l)
        err == IF r.err # NoErr THEN r.err ELSE ByCatalogErr(Len(r.objs))
        bs == IF err = NoErr THEN <<r.objs[1]>> ELSE <<>>
    IN /\ builders' = CollectBuilders(bs, r.items)
       /\ items' = r.items
       /\ heap' = CollectHeap(r.heap, bs, r.items)
       /\ last' = [Blank EXCEPT !.op = "PullByCatalog", !.idx = Len(bs), !.nsname = nsname,
                                !.calls = r.calls, !.lst = r.lst, !.found = Len(r.objs), !.err = err,
                                !.result = IF err = NoErr THEN "returned" ELSE "nil"]
       /\ UNCHANGED <<server, clientset>>

\* ---------------------------------------------------------------- caller
\* The caller writes through an accessor's Object pointer (one edit per
\* set of accessors it holds).
Mutate(i) ==
  /\ i \in DOMAIN builders
  /\ builders[i].Object # Nil
  /\ \A a \in DOMAIN heap : heap[a].catalog # "edited"
  /\ heap' = [heap EXCEPT ![builders[i].Object].catalog = "edited"]
  /\ last' = [Blank EXCEPT !.op = "Mutate", !.idx = i]
  /\ UNCHANGED <<server, clientset, builders, items>>

\* ---------------------------------------------------------------- spec
DoList == \E in \in ListInputs : List(in[1], in[2])
DoPull == \E in \in PullInputs : PullPackageManifest(in[1], in[2])
DoPullByCatalog == \E in \in ByCatalogInputs : PullPackageManifestByCatalog(in[1], in[2], in[3])
DoExists == \E i \in DOMAIN builders : Exists(i)
DoDelete == \E i \in DOMAIN builders : Delete(i)
DoMutate == \E i \in DOMAIN builders : Mutate(i)

Next == DoList \/ DoPull \/ DoPullByCatalog \/ DoExists \/ DoDelete \/ DoMutate

Spec == Init /\ [][Next]_vars

TypeOK == \A i \in DOMAIN builders : builders[i].Definition \in DOMAIN heap \cup {Nil} /\ builders[i].Object \in DOMAIN heap \cup {Nil}

\* ================================================================ claims
Failed(err) == err # NoErr /\ err # NoCall

Object(i) == ValOf(heap, builders[i].Object)

Definition(i) == ValOf(heap, builders[i].Definition)

\* C1: Exists() returns true exactly when the remote get succeeded or
\* failed with an error other than "not found", and false exactly when the
\* get failed with "not found".
C1_ExistsResult ==
  (last.op = "Exists" /\ last.get # NoCall) =>
    /\ last.result = "true" <=> (last.get = NoErr \/ (Failed(last.get) /\ last.get.kind # "NotFound"))
    /\ last.result = "false" <=> last.get.kind = "NotFound"

C1_Witness == last.op = "Exists" /\ last.get = InternalErr /\ last.result = "true"

\* Two Deletes in succession on one accessor that is bound to a resource
\* name, the first of which has returned.
TwoDeletes ==
  /\ last.op = "Delete" /\ last.result = "returned" /\ last.name \in Names
  /\ last'.op = "Delete" /\ last'.idx = last.idx

C3_PullNotFound ==
  (last.op = "Pull" /\ Matching(last.nsname, last.name) = {}) =>
    /\ last.err = DoesNotExistErr(last.name, last.nsname)
    /\ last.result = "nil"
    /\ builders = <<>>

\* C4: when its list call succeeds, PullPackageManifestByCatalog returns
\* the "no matching" error and no accessor for 0 listed items, exactly the
\* listed accessor and no error for 1, and the "more than one" error and no
\* accessor for 2 or more.
C4_ByCatalog ==
  (last.op = "PullByCatalog" /\ last.lst = NoErr) =>
    /\ last.found = 0 => (last.err = NoMatchErr /\ last.result = "nil" /\ builders = <<>>)
    /\ last.found = 1 =>
         /\ last.err = NoErr /\ last.result = "returned" /\ Len(builders) = 1
         /\ Object(1) = heap[items[1]] /\ Definition(1) = heap[items[1]]
    /\ last.found >= 2 => (last.err = MoreThanOneErr /\ last.result = "nil" /\ builders = <<>>)

C4_Witness == last.op = "PullByCatalog" /\ last.lst = NoErr /\ last.found >= 2 /\ last.err = MoreThanOneErr

\* C5: ListPackageManifest called with an empty namespace returns an error
\* and a nil slice and issues no remote call.
C5_ListEmptyNamespace ==
  (last.op \in {"List", "PullByCatalog"} /\ last.nsname = "") =>
    /\ last.err = EmptyNsnameErr
    /\ last.result = "nil" /\ builders = <<>>
    /\ last.calls = <<>>

C5_Witness == last.op = "List" /\ last.nsname = "" /\ last.err = EmptyNsnameErr /\ server # {}

\* C6: the i-th accessor List returns holds the i-th listed item in a copy
\* of its own: no accessor's pointers reach another accessor's object or a
\* slot of the list buffer, and a write through one accessor's Object
\* changes no other accessor's Object or Definition nor the list buffer.
Separate ==
  /\ \A i \in DOMAIN builders : Object(i) = heap[items[i]] /\ Definition(i) = heap[items[i]]
  /\ \A i \in DOMAIN builders : builders[i].Object \notin Range(items)
  /\ \A i, j \in DOMAIN builders : i # j => builders[i].Object \notin {builders[j].Object, builders[j].Definition}

Untouched(i) ==
  /\ \A j \in DOMAIN builders \ {i} : ValOf(heap', builders'[j].Object) = Object(j) /\ ValOf(heap', builders'[j].Definition) = Definition(j)
  /\ \A k \in DOMAIN items : heap'[items'[k]] = heap[items[k]]

C7_Original ==
  [][(last'.op = "Exists" /\ Failed(last'.get)) =>
       ValOf(heap', builders'[last'.idx].Object) = Object(last'.idx)]_vars

\* C7 amended: when the remote get of Exists() fails, Object does not keep
\* its value: it becomes what the get returned beside the error, nil or a
\* pointer to an empty PackageManifest; Definition is left alone.
C7_ExistsOverwrites ==
  [][(last'.op = "Exists" /\ Failed(last'.get)) =>
       /\ ValOf(heap', builders'[last'.idx].Object) = FailedGetResult
       /\ ValOf(heap', builders'[last'.idx].Definition) = Definition(last'.idx)]_vars

C7_Witness ==
  /\ last.op = "Exists" /\ Failed(last.get)
  /\ Object(last.idx) = FailedGetResult /\ Definition(last.idx) \in PackageManifest

\* C8 as stated: List, Pull, Exists and Delete each issue at most one
\* remote call, and PullByCatalog exactly one list call.
C8_Original ==
  /\ last.op \in {"List", "Pull", "Exists", "Delete"} => Len(last.calls) <= 1
  /\ last.op = "PullByCatalog" => last.calls = <<"list">>

\* C8 amended: List issues at most one list call, Pull and Exists at most
\* one get; Delete issues one get followed by at most one delete;
\* PullByCatalog issues exactly one list call when the namespace is not
\* empty and no remote call when it is.
C8_RoundTrips ==
  /\ last.op = "List" => last.calls \in {<<>>, <<"list">>}
  /\ last.op \in {"Pull", "Exists"} => last.calls \in {<<>>, <<"get">>}
  /\ last.op = "Delete" => last.calls \in {<<>>, <<"get">>, <<"get", "delete">>}
  /\ last.op = "PullByCatalog" => last.calls = (IF last.nsname = "" THEN <<>> ELSE <<"list">>)

C8_Witness == last.op = "Delete" /\ last.calls = <<"get", "delete">>

C10_PullSuccess ==
  (last.op = "Pull" /\ last.err = NoErr /\ last.result = "returned") =>
    /\ last.get = NoErr
    /\ Object(1) \in server
    /\ Definition(1).name = last.name /\ Definition(1).ns = last.nsname
====
